---- MODULE Spec2Model ----
(***************************************************************************)
(* Model of txtai's Models utility class (src/python/txtai/models/models.py)*)
(*                                                                         *)
(* The class is a collection of static methods.  The state of the model is *)
(* what those methods read and write: the torch backends that report       *)
(* availability, the files that exist on disk, the caller-owned tokenizer  *)
(* object (the only object checklength mutates) and the record of the last *)
(* call: its name, its arguments, what it returned or raised and which     *)
(* external constructors it invoked.                                       *)
(***************************************************************************)
EXTENDS Integers, Sequences, FiniteSets, TLC

VARIABLES
    torch,      \* backend availability: [cuda, mps : BOOLEAN, xpu : XpuStates]
    files,      \* set of path strings for which os.path.isfile is True
    tokenizer,  \* the caller's tokenizer object (attribute bag) or PyNoneObj
    op,         \* name of the last method called
    args,       \* its arguments
    ret,        \* [exc |-> exception name or "none", val |-> returned value]
    calls       \* external constructors invoked by the last call, in order

vars == <<torch, files, tokenizer, op, args, ret, calls>>

(***************************************************************************)
(* Bounds of the model                                                     *)
(***************************************************************************)
\* Largest explicit device index a caller passes.
MaxDeviceId == 11

\* Largest finite sequence length a config or tokenizer declares.
MaxModelLen == 2

\* Stands for int(1e30), the value a tokenizer carries when no maximum length
\* was set; it exceeds every finite length of the model.
Sentinel == 1000000

(***************************************************************************)
(* Python values.  Every value is a record [kind, i, s]: kind is the       *)
(* Python type, i the numeric payload and s the text payload.              *)
(***************************************************************************)
PyNone == [kind |-> "NoneType", i |-> 0, s |-> ""]

PyBoolean(b) == [kind |-> "bool", i |-> IF b THEN 1 ELSE 0, s |-> ""]

PyInt(n) == [kind |-> "int", i |-> n, s |-> ""]

PyStr(t) == [kind |-> "str", i |-> 0, s |-> t]

\* A float is kept as a number of halves: PyFloat(3) is 1.5.
PyFloat(h) == [kind |-> "float", i |-> h, s |-> ""]

PyList == [kind |-> "list", i |-> 0, s |-> ""]

PyBytes(t) == [kind |-> "bytes", i |-> 0, s |-> t]

\* torch.device(name), an already resolved device handle.
TorchDevice(t) == [kind |-> "torch.device", i |-> 0, s |-> t]

\* An already instantiated model object.
ModelObject(t) == [kind |-> "object", i |-> 0, s |-> t]

\* The object an external constructor returns for the arguments it was given.
Constructed(fn, a) == [kind |-> "instance", of |-> fn, from |-> a]

Returned(v) == [exc |-> "none", val |-> v]

Raised(e) == [exc |-> e, val |-> PyNone]

(***************************************************************************)
(* Conversions of the Python runtime used by the methods                   *)
(***************************************************************************)
Digit == <<"0", "1", "2", "3", "4", "5", "6", "7", "8", "9">>

\* str(n) for an integer n: decimal digits, most significant first.
RECURSIVE IntToStr(_)
IntToStr(n) ==
    IF n < 0 THEN "-" \o IntToStr(-n)
    ELSE IF n < 10 THEN Digit[n + 1]
    ELSE IntToStr(n \div 10) \o Digit[(n % 10) + 1]

\* format(v), the text an f-string substitutes for v.
PyFormat(v) ==
    CASE v.kind = "int" -> IntToStr(v.i)
      [] v.kind = "bool" -> (IF v.i = 1 THEN "True" ELSE "False")
      [] v.kind = "float" ->
            (IF v.i < 0 THEN "-" ELSE "")
               \o IntToStr((IF v.i < 0 THEN -v.i ELSE v.i) \div 2)
               \o (IF v.i % 2 = 0 THEN ".0" ELSE ".5")
      [] OTHER -> v.s

\* The integers int(str) can yield for the strings of the model.
ParseRange == (-(MaxDeviceId + 1)) .. (MaxDeviceId + 1)

\* The literals int(str) reads as n: an optional sign, surrounding blanks.
IntLiterals(n) ==
    {IntToStr(n), " " \o IntToStr(n), IntToStr(n) \o " "}
        \cup (IF n >= 0 THEN {"+" \o IntToStr(n)} ELSE {})

\* int(v): the value, or the exception int raises.
PyIntOf(v) ==
    CASE v.kind \in {"int", "bool"} -> Returned(PyInt(v.i))
      [] v.kind = "float" ->
            Returned(PyInt(IF v.i >= 0 THEN v.i \div 2 ELSE -((-v.i) \div 2)))
      [] v.kind = "str" ->
            IF \E n \in ParseRange : v.s \in IntLiterals(n)
            THEN Returned(PyInt(CHOOSE n \in ParseRange : v.s \in IntLiterals(n)))
            ELSE Raised("ValueError")
      [] OTHER -> Raised("TypeError")

\* bool(v) for the values finddevice returns.
PyTruth(v) ==
    CASE v.kind = "NoneType" -> FALSE
      [] v.kind = "str" -> v.s # ""
      [] v.kind \in {"int", "bool", "float"} -> v.i # 0
      [] OTHER -> TRUE

\* Whether v supports the comparison v < 0.
Ordered(v) == v.kind \in {"int", "bool", "float"}

(***************************************************************************)
(* Device resolution                                                       *)
(***************************************************************************)
XpuStates == {"absent", "unavailable", "available"}

\* The alternative accelerator families finddevice probes, in order.
AltDevices == <<"xpu">>

\* hasattr(torch, device) and getattr(torch, device).is_available()
AltAvailable(t, device) == t[device] = "available"

finddevice(t) ==
    LET found == {k \in 1..Len(AltDevices) : AltAvailable(t, AltDevices[k])}
    IN  IF found = {} THEN PyNone
        ELSE PyStr(AltDevices[CHOOSE k \in found : \A j \in found : k <= j])

\* Faulty variant of hasaccelerator: only the CUDA backend is probed.
hasaccelerator_CudaOnly(t) == t.cuda

hasaccelerator(t) == t.cuda \/ t.mps \/ PyTruth(finddevice(t))

\* Faulty variant of deviceid: the accelerator probe is missing from the -1 test.
deviceid_NoProbe(t, gpu) ==
    IF gpu.kind = "torch.device" THEN Returned(gpu)
    ELSE IF gpu.kind = "NoneType" THEN Returned(PyInt(-1))
    ELSE IF gpu.kind = "bool" THEN Returned(PyInt(IF gpu.i = 1 THEN 0 ELSE -1))
    ELSE PyIntOf(gpu)

deviceid(t, gpu) ==
    IF gpu.kind = "torch.device" THEN Returned(gpu)
    ELSE IF gpu.kind = "NoneType" \/ ~hasaccelerator(t) THEN Returned(PyInt(-1))
    ELSE IF gpu.kind = "bool" THEN Returned(PyInt(IF gpu.i = 1 THEN 0 ELSE -1))
    ELSE PyIntOf(gpu)

\* Faulty variant of reference: the MPS backend is tested before CUDA.
reference_MpsFirst(t, id) ==
    IF id.kind = "str" THEN Returned(id)
    ELSE IF ~Ordered(id) THEN Raised("TypeError")
    ELSE IF id.i < 0 THEN Returned(PyStr("cpu"))
    ELSE IF t.mps THEN Returned(PyStr("mps"))
    ELSE IF t.cuda THEN Returned(PyStr("cuda:" \o PyFormat(id)))
    ELSE Returned(finddevice(t))

reference(t, id) ==
    IF id.kind = "str" THEN Returned(id)
    ELSE IF ~Ordered(id) THEN Raised("TypeError")
    ELSE IF id.i < 0 THEN Returned(PyStr("cpu"))
    ELSE IF t.cuda THEN Returned(PyStr("cuda:" \o PyFormat(id)))
    ELSE IF t.mps THEN Returned(PyStr("mps"))
    ELSE Returned(finddevice(t))

\* torch.device(ref): a handle for a string reference, an error for None.
NewTorchDevice(r) ==
    IF r.exc # "none" THEN r
    ELSE IF r.val.kind = "str" THEN Returned(TorchDevice(r.val.s))
    ELSE Raised("TypeError")

device(t, id) ==
    IF id.kind = "torch.device" THEN Returned(id)
    ELSE NewTorchDevice(reference(t, id))

(***************************************************************************)
(* Model loading                                                           *)
(***************************************************************************)
\* os.path.isfile(path) for a string path.
isfile(fs, path) == path.s \in fs

\* Faulty variant of models: summarization is given the generic constructor.
models_SummarizationGeneric ==
    [ t \in {"default", "question-answering", "summarization",
             "text-classification", "zero-shot-classification"} |->
        CASE t = "default" -> "AutoModel.from_pretrained"
          [] t = "question-answering" -> "AutoModelForQuestionAnswering.from_pretrained"
          [] t = "summarization" -> "AutoModel.from_pretrained"
          [] t = "text-classification" -> "AutoModelForSequenceClassification.from_pretrained"
          [] t = "zero-shot-classification" -> "AutoModelForSequenceClassification.from_pretrained" ]

\* The task table built by load: task name -> constructor.
models ==
    [ t \in {"default", "question-answering", "summarization",
             "text-classification", "zero-shot-classification"} |->
        CASE t = "default" -> "AutoModel.from_pretrained"
          [] t = "question-answering" -> "AutoModelForQuestionAnswering.from_pretrained"
          [] t = "summarization" -> "AutoModelForSeq2SeqLM.from_pretrained"
          [] t = "text-classification" -> "AutoModelForSequenceClassification.from_pretrained"
          [] t = "zero-shot-classification" -> "AutoModelForSequenceClassification.from_pretrained" ]

\* task in models, for a hashable task.
InModels(task) == task.kind = "str" /\ task.s \in DOMAIN models

\* One invocation of an external constructor.
Invocation(fn, a) == [fn |-> fn, args |-> a]

\* Faulty variant of IsOnnx: a path string is never taken for an ONNX file.
IsOnnx_BytesOnly(fs, path) == path.kind = "bytes"

\* The ONNX test of load.
IsOnnx(fs, path) == path.kind = "bytes" \/ (path.kind = "str" /\ isfile(fs, path))

\* Faulty variant of load: the test that returns a non-string path is missing.
load_NoPassThrough(fs, path, config, task) ==
    IF IsOnnx(fs, path)
    THEN [ret |-> Returned(Constructed("OnnxModel", <<path, config>>)),
          calls |-> <<Invocation("OnnxModel", <<path, config>>)>>]
    ELSE IF InModels(task)
    THEN [ret |-> Returned(Constructed(models[task.s], <<path>>)),
          calls |-> <<Invocation(models[task.s], <<path>>)>>]
    ELSE [ret |-> Returned(path), calls |-> <<>>]

\* load(path, config, task): what it returns and the constructors it invokes.
load(fs, path, config, task) ==
    IF IsOnnx(fs, path)
    THEN [ret |-> Returned(Constructed("OnnxModel", <<path, config>>)),
          calls |-> <<Invocation("OnnxModel", <<path, config>>)>>]
    ELSE IF path.kind # "str"
    THEN [ret |-> Returned(path), calls |-> <<>>]
    ELSE IF InModels(task)
    THEN [ret |-> Returned(Constructed(models[task.s], <<path>>)),
          calls |-> <<Invocation(models[task.s], <<path>>)>>]
    ELSE [ret |-> Returned(path), calls |-> <<>>]

(***************************************************************************)
(* Config and tokenizer objects are attribute bags: records whose domain   *)
(* is the set of attributes the object has.  Every object has "class"; a   *)
(* class that defines __len__ has "len".                                   *)
(***************************************************************************)
PyNoneObj == [class |-> "NoneType"]

hasattr(o, a) == a \in DOMAIN o

\* Truth value of an object: None is false, so is an object whose __len__ is 0.
Truthy(o) == o.class # "NoneType" /\ (hasattr(o, "len") => o.len # 0)

\* Unpack nested config, handles passing model directly.
Unpack(config) == IF hasattr(config, "config") THEN config.config ELSE config

\* The tokenizer as checklength leaves it.
checklength(config, tok) ==
    LET c == Unpack(config)
    IN  IF /\ hasattr(c, "max_position_embeddings")
           /\ Truthy(tok)
           /\ hasattr(tok, "model_max_length")
           /\ tok.model_max_length = Sentinel
        THEN [tok EXCEPT !.model_max_length = c.max_position_embeddings]
        ELSE tok

\* Attribute read o.a: the value, or AttributeError.
getattr(o, a) == IF hasattr(o, a) THEN Returned(PyInt(o[a])) ELSE Raised("AttributeError")

\* Faulty variant of maxlength: config.max_length is returned whatever the tokenizer has.
maxlength_ConfigOnly(config, tok) ==
    LET c == Unpack(config)
    IN  IF ~hasattr(c, "to_diff_dict") THEN Raised("AttributeError")
        ELSE getattr(c, "max_length")

\* Faulty variant of maxlength: the tokenizer's value is preferred when it has one.
maxlength_TokenizerFirst(config, tok) ==
    LET c == Unpack(config)
    IN  IF ~hasattr(c, "to_diff_dict") THEN Raised("AttributeError")
        ELSE IF hasattr(tok, "model_max_length")
        THEN getattr(tok, "model_max_length")
        ELSE getattr(c, "max_length")

maxlength(config, tok) ==
    LET c == Unpack(config)
    IN  IF ~hasattr(c, "to_diff_dict") THEN Raised("AttributeError")
        ELSE IF "max_length" \in c.to_diff_dict \/ ~hasattr(tok, "model_max_length")
        THEN getattr(c, "max_length")
        ELSE getattr(tok, "model_max_length")

(***************************************************************************)
(* Inputs of the calls                                                     *)
(***************************************************************************)
TorchStates == [cuda : BOOLEAN, mps : BOOLEAN, xpu : XpuStates]

\* Strings that name a file on disk in some runs and none in others.
FileSystems == {{}, {"model.onnx"}}

\* The gpu argument of deviceid: absent, a flag, an index, a string, a float,
\* a list and an already resolved device.
Requests ==
    {PyNone, PyBoolean(TRUE), PyBoolean(FALSE)}
        \cup {PyInt(n) : n \in {-1, 0, 1, MaxDeviceId}}
        \cup {PyStr("1"), PyStr("cuda:0")}
        \cup {PyFloat(3), PyList, TorchDevice("cpu")}

\* The deviceid argument of reference and device.
DeviceIds ==
    {PyStr("cpu"), PyNone, PyBoolean(TRUE), TorchDevice("cpu")}
        \cup {PyInt(n) : n \in {-1, 0, 1, MaxDeviceId}}

\* The path argument of load: bytes, path strings and a model instance.
Artifacts ==
    {PyBytes("onnx-bytes"), PyStr("model.onnx"), PyStr("hub/model"), ModelObject("model")}

LoadConfigs == {PyNone, PyStr("config.json")}

Tasks ==
    {PyStr(t) : t \in DOMAIN models} \cup {PyStr("unknown-task"), PyNone}

Lengths == 1..MaxModelLen

\* A transformers config: max_position_embeddings and max_length are optional,
\* to_diff_dict() yields the names of the fields that differ from the defaults.
PlainConfigs ==
    LET base(d) == [class |-> "PretrainedConfig", to_diff_dict |-> d]
        mpe == {<<>>} \cup {("max_position_embeddings" :> MaxModelLen)}
        ml  == {<<>>} \cup {("max_length" :> n) : n \in Lengths}
    IN  {base(d) @@ p @@ m :
            d \in {{}, {"max_length"}}, p \in mpe, m \in ml}

\* max_length is a non-default field only of a config that has the field.
Configs ==
    {c \in PlainConfigs : "max_length" \in c.to_diff_dict => hasattr(c, "max_length")}

\* A model passed in place of its config: it carries the config as .config.
Wrapped == {[class |-> "PreTrainedModel", config |-> c] : c \in Configs}

ConfigArgs == Configs \cup Wrapped \cup {PyNoneObj}

\* A tokenizer: len is its vocabulary size, model_max_length is optional.
Tokenizers ==
    {PyNoneObj, [class |-> "Tokenizer", len |-> 1]}
        \cup {[class |-> "Tokenizer", len |-> v, model_max_length |-> n] :
                v \in {0, 1}, n \in Lengths \cup {Sentinel}}

NoArgs == [none |-> TRUE]

(***************************************************************************)
(* The state machine: one action per method, and the two steps of the      *)
(* surroundings (the backends or the disk change, the caller takes a new   *)
(* tokenizer).                                                             *)
(***************************************************************************)
Init ==
    /\ torch \in TorchStates
    /\ files \in FileSystems
    /\ tokenizer \in Tokenizers
    /\ op = "init"
    /\ args = NoArgs
    /\ ret = Returned(PyNone)
    /\ calls = <<>>

\* The machine the code runs on changes: other backends, other files.
Probe ==
    /\ torch' \in TorchStates
    /\ files' \in FileSystems
    /\ <<torch', files'>> # <<torch, files>>
    /\ op' = "probe"
    /\ args' = NoArgs
    /\ ret' = Returned(PyNone)
    /\ calls' = <<>>
    /\ UNCHANGED tokenizer

\* The caller builds another tokenizer.
NewTokenizer ==
    /\ tokenizer' \in Tokenizers
    /\ tokenizer' # tokenizer
    /\ op' = "tokenizer"
    /\ args' = NoArgs
    /\ ret' = Returned(PyNone)
    /\ calls' = <<>>
    /\ UNCHANGED <<torch, files>>

DeviceId ==
    \E gpu \in Requests :
        /\ op' = "deviceid"
        /\ args' = [gpu |-> gpu]
        /\ ret' = deviceid(torch, gpu)
        /\ calls' = <<>>
        /\ UNCHANGED <<torch, files, tokenizer>>

\* reference(id) on an id the caller supplies.
Reference ==
    \E id \in DeviceIds :
        /\ op' = "reference"
        /\ args' = [deviceid |-> id, via |-> "caller"]
        /\ ret' = reference(torch, id)
        /\ calls' = <<>>
        /\ UNCHANGED <<torch, files, tokenizer>>

\* reference(deviceid(gpu)): the id is what the deviceid call just returned.
ReferenceResolved ==
    /\ op = "deviceid"
    /\ ret.exc = "none"
    /\ op' = "reference"
    /\ args' = [deviceid |-> ret.val, via |-> "deviceid", gpu |-> args.gpu]
    /\ ret' = reference(torch, ret.val)
    /\ calls' = <<>>
    /\ UNCHANGED <<torch, files, tokenizer>>

Device ==
    \E id \in DeviceIds :
        /\ op' = "device"
        /\ args' = [deviceid |-> id]
        /\ ret' = device(torch, id)
        /\ calls' = <<>>
        /\ UNCHANGED <<torch, files, tokenizer>>

HasAccelerator ==
    /\ op' = "hasaccelerator"
    /\ args' = NoArgs
    /\ ret' = Returned(PyBoolean(hasaccelerator(torch)))
    /\ calls' = <<>>
    /\ UNCHANGED <<torch, files, tokenizer>>

FindDevice ==
    /\ op' = "finddevice"
    /\ args' = NoArgs
    /\ ret' = Returned(finddevice(torch))
    /\ calls' = <<>>
    /\ UNCHANGED <<torch, files, tokenizer>>

Load ==
    \E path \in Artifacts, config \in LoadConfigs, task \in Tasks :
        /\ op' = "load"
        /\ args' = [path |-> path, config |-> config, task |-> task]
        /\ ret' = load(files, path, config, task).ret
        /\ calls' = load(files, path, config, task).calls
        /\ UNCHANGED <<torch, files, tokenizer>>

\* checklength returns nothing; args keeps the tokenizer as it was passed.
CheckLength ==
    \E config \in ConfigArgs :
        /\ op' = "checklength"
        /\ args' = [config |-> config, tokenizer |-> tokenizer]
        /\ tokenizer' = checklength(config, tokenizer)
        /\ ret' = Returned(PyNone)
        /\ calls' = <<>>
        /\ UNCHANGED <<torch, files>>

MaxLength ==
    \E config \in ConfigArgs :
        /\ op' = "maxlength"
        /\ args' = [config |-> config, tokenizer |-> tokenizer]
        /\ ret' = maxlength(config, tokenizer)
        /\ calls' = <<>>
        /\ UNCHANGED <<torch, files, tokenizer>>

Next ==
    \/ Probe
    \/ NewTokenizer
    \/ DeviceId
    \/ Reference
    \/ ReferenceResolved
    \/ Device
    \/ HasAccelerator
    \/ FindDevice
    \/ Load
    \/ CheckLength
    \/ MaxLength

Spec == Init /\ [][Next]_vars

(***************************************************************************)
(* Properties                                                              *)
(***************************************************************************)
\* Some accelerator backend reports availability.
AnyBackend == torch.cuda \/ torch.mps \/ torch.xpu = "available"

\* C1: a path that is bytes, or a string naming an existing file, is handed to
\* OnnxModel together with config, whatever the task; load returns what
\* OnnxModel built and invokes no constructor of the task table.
C1_OnnxDelegation ==
    (/\ op = "load"
     /\ \/ args.path.kind = "bytes"
        \/ (args.path.kind = "str" /\ args.path.s \in files))
      => /\ calls = <<Invocation("OnnxModel", <<args.path, args.config>>)>>
         /\ ret = Returned(Constructed("OnnxModel", <<args.path, args.config>>))

\* An existing file loaded under a task of the table went to OnnxModel.
C1_Witness ==
    /\ op = "load"
    /\ args.path = PyStr("model.onnx")
    /\ "model.onnx" \in files
    /\ args.task = PyStr("summarization")
    /\ args.config = PyStr("config.json")
    /\ Len(calls) = 1
    /\ calls[1].fn = "OnnxModel"

\* C2 as stated: every path that is not a string is returned unchanged and no
\* constructor is invoked.
C2_NonStringPassThrough ==
    (op = "load" /\ args.path.kind # "str")
      => (ret = Returned(args.path) /\ calls = <<>>)

\* C2 amended: every path that is neither a string nor bytes is returned
\* unchanged, for every config and task, and no constructor is invoked.
C2_NonStringNonBytesPassThrough ==
    (op = "load" /\ args.path.kind \notin {"str", "bytes"})
      => (ret = Returned(args.path) /\ calls = <<>>)

\* A model instance loaded under a task of the table came back as it was.
C2_Witness ==
    /\ op = "load"
    /\ args.path = ModelObject("model")
    /\ args.task = PyStr("question-answering")
    /\ ret.val = ModelObject("model")
    /\ calls = <<>>

\* C3: for a string that names no existing file, load invokes once, with the
\* string as only argument, the constructor the five-entry table gives the
\* task; text-classification and zero-shot-classification share one. A task
\* outside the table invokes nothing, raises nothing and returns the string.
C3_TaskDispatch ==
    (op = "load" /\ args.path.kind = "str" /\ args.path.s \notin files)
      => LET one(fn) ==
                 /\ calls = <<Invocation(fn, <<args.path>>)>>
                 /\ ret = Returned(Constructed(fn, <<args.path>>))
             t == args.task
         IN  /\ t = PyStr("default") => one("AutoModel.from_pretrained")
             /\ t = PyStr("question-answering")
                   => one("AutoModelForQuestionAnswering.from_pretrained")
             /\ t = PyStr("summarization")
                   => one("AutoModelForSeq2SeqLM.from_pretrained")
             /\ t \in {PyStr("text-classification"), PyStr("zero-shot-classification")}
                   => one("AutoModelForSequenceClassification.from_pretrained")
             /\ t \notin {PyStr("default"), PyStr("question-answering"),
                          PyStr("summarization"), PyStr("text-classification"),
                          PyStr("zero-shot-classification")}
                   => (calls = <<>> /\ ret = Returned(args.path))

\* A hub identifier loaded for summarization went to the seq2seq constructor.
C3_Witness ==
    /\ op = "load"
    /\ args.path = PyStr("hub/model")
    /\ args.task = PyStr("summarization")
    /\ calls = <<Invocation("AutoModelForSeq2SeqLM.from_pretrained", <<PyStr("hub/model")>>)>>

\* C4: for a request that is no device handle, deviceid returns -1 when the
\* request is None or no backend is available; with a backend available it
\* returns 0 for True and -1 for False.
C4_DeviceIdFlags ==
    (op = "deviceid" /\ args.gpu.kind # "torch.device")
      => /\ (args.gpu = PyNone \/ ~AnyBackend) => ret = Returned(PyInt(-1))
         /\ (AnyBackend /\ args.gpu = PyBoolean(TRUE)) => ret = Returned(PyInt(0))
         /\ (AnyBackend /\ args.gpu = PyBoolean(FALSE)) => ret = Returned(PyInt(-1))

\* deviceid(True) gave 0 where the only backend is the alternative accelerator.
C4_Witness ==
    /\ op = "deviceid"
    /\ args.gpu = PyBoolean(TRUE)
    /\ ~torch.cuda /\ ~torch.mps /\ torch.xpu = "available"
    /\ ret = Returned(PyInt(0))

\* C5: for an integer or boolean id, reference gives "cpu" for id < 0 whatever
\* the backends; for id >= 0 it gives "cuda:<id>" whenever CUDA is available,
\* "mps" only when CUDA is not and MPS is, and the alternative accelerator's
\* name only when neither is.
C5_ReferencePriority ==
    (op = "reference" /\ args.deviceid.kind \in {"int", "bool"})
      => LET id == args.deviceid
         IN  /\ id.i < 0 => ret = Returned(PyStr("cpu"))
             /\ (id.i >= 0 /\ torch.cuda)
                   => ret = Returned(PyStr("cuda:" \o PyFormat(id)))
             /\ (id.i >= 0 /\ ~torch.cuda /\ torch.mps)
                   => ret = Returned(PyStr("mps"))
             /\ (id.i >= 0 /\ ~torch.cuda /\ ~torch.mps /\ torch.xpu = "available")
                   => ret = Returned(PyStr("xpu"))
             /\ ret = Returned(PyStr("mps")) => (~torch.cuda /\ torch.mps)
             /\ ret = Returned(PyStr("xpu")) => (~torch.cuda /\ ~torch.mps)

\* reference(11) gave "cuda:11" with CUDA, MPS and XPU all available.
C5_Witness ==
    /\ op = "reference"
    /\ args.deviceid = PyInt(11)
    /\ torch.cuda /\ torch.mps /\ torch.xpu = "available"
    /\ ret = Returned(PyStr("cuda:11"))

\* C6 as stated: deviceid raises nothing for a request that is None, a bool,
\* an int, a str or a device handle; it raises only for a request of another
\* kind whose coercion to an integer fails.
C6_RaisesOnlyOnOtherKinds ==
    op = "deviceid"
      => LET listed == args.gpu.kind \in {"NoneType", "bool", "int", "str", "torch.device"}
         IN  /\ listed => ret.exc = "none"
             /\ ret.exc # "none" => (~listed /\ PyIntOf(args.gpu).exc # "none")

\* C7 as stated: after checklength, when the unpacked config has
\* max_position_embeddings and the tokenizer has model_max_length, the
\* tokenizer is not left at the sentinel: a sentinel became the config's
\* max_position_embeddings, any other value is unchanged.
C7_SentinelReplaced ==
    (/\ op = "checklength"
     /\ hasattr(Unpack(args.config), "max_position_embeddings")
     /\ hasattr(args.tokenizer, "model_max_length"))
      => /\ tokenizer.model_max_length # Sentinel
         /\ IF args.tokenizer.model_max_length = Sentinel
            THEN tokenizer = [args.tokenizer EXCEPT !.model_max_length =
                                 Unpack(args.config).max_position_embeddings]
            ELSE tokenizer = args.tokenizer

\* C8: for a config object (unpacked one level), maxlength returns
\* config.max_length when max_length is among the non-default fields, whatever
\* the tokenizer has, and when the tokenizer has no model_max_length; otherwise
\* it returns tokenizer.model_max_length. The tokenizer is left as passed.
C8_MaxLengthPreference ==
    (op = "maxlength" /\ hasattr(Unpack(args.config), "to_diff_dict"))
      => LET c == Unpack(args.config)
             tok == args.tokenizer
         IN  /\ "max_length" \in c.to_diff_dict
                   => ret = Returned(PyInt(c.max_length))
             /\ (~hasattr(tok, "model_max_length") /\ hasattr(c, "max_length"))
                   => ret = Returned(PyInt(c.max_length))
             /\ ("max_length" \notin c.to_diff_dict /\ hasattr(tok, "model_max_length"))
                   => ret = Returned(PyInt(tok.model_max_length))
             /\ tokenizer = tok

\* An explicitly set max_length won over a different tokenizer value, through
\* a wrapped config.
C8_Witness ==
    /\ op = "maxlength"
    /\ hasattr(args.config, "config")
    /\ "max_length" \in args.config.config.to_diff_dict
    /\ hasattr(args.tokenizer, "model_max_length")
    /\ args.tokenizer.model_max_length # args.config.config.max_length
    /\ ret = Returned(PyInt(args.config.config.max_length))

\* The config is None, or lacks the named field after unpacking.
ConfigLacks(config, field) ==
    config = PyNoneObj \/ ~hasattr(Unpack(config), field)

\* C9 as stated: with the config None or lacking max_position_embeddings and
\* max_length, checklength and maxlength raise nothing; checklength leaves the
\* tokenizer as it was and maxlength returns tokenizer.model_max_length.
C9_AbsentConfigNeverRaises ==
    (/\ op \in {"checklength", "maxlength"}
     /\ ConfigLacks(args.config, "max_position_embeddings")
     /\ ConfigLacks(args.config, "max_length"))
      => /\ ret.exc = "none"
         /\ op = "checklength" => tokenizer = args.tokenizer
         /\ (op = "maxlength" /\ hasattr(args.tokenizer, "model_max_length"))
               => ret = Returned(PyInt(args.tokenizer.model_max_length))

\* C9 amended: with the config None or lacking max_position_embeddings,
\* checklength raises nothing and leaves the tokenizer as it was. With a
\* config object that lacks max_length and a tokenizer that has
\* model_max_length, maxlength returns tokenizer.model_max_length; with the
\* config None, or with max_length and model_max_length both missing, it
\* raises AttributeError.
C9_AbsentConfigGated ==
    /\ (op = "checklength" /\ ConfigLacks(args.config, "max_position_embeddings"))
          => (ret.exc = "none" /\ tokenizer = args.tokenizer)
    /\ (/\ op = "maxlength"
        /\ args.config # PyNoneObj
        /\ ~hasattr(Unpack(args.config), "max_length")
        /\ hasattr(args.tokenizer, "model_max_length"))
          => ret = Returned(PyInt(args.tokenizer.model_max_length))
    /\ (op = "maxlength" /\ args.config = PyNoneObj)
          => ret.exc = "AttributeError"
    /\ (/\ op = "maxlength"
        /\ ~hasattr(Unpack(args.config), "max_length")
        /\ ~hasattr(args.tokenizer, "model_max_length"))
          => ret.exc = "AttributeError"

\* maxlength on a wrapped config without max_length returned the tokenizer's
\* value.
C9_Witness ==
    /\ op = "maxlength"
    /\ hasattr(args.config, "config")
    /\ ~hasattr(args.config.config, "max_length")
    /\ ~hasattr(args.config.config, "max_position_embeddings")
    /\ hasattr(args.tokenizer, "model_max_length")
    /\ ret = Returned(PyInt(args.tokenizer.model_max_length))

\* C10: with the backends unchanged between the two calls, reference applied
\* to what deviceid returned for a None, bool or int request is a string,
\* never None: "cpu" when no backend is available or the id is negative, an
\* accelerator reference otherwise. For an int id >= 0 supplied by anyone,
\* reference returns None exactly when no backend is available.
C10_ResolvedReferenceDefined ==
    /\ (/\ op = "reference"
        /\ args.via = "deviceid"
        /\ args.gpu.kind \in {"NoneType", "bool", "int"})
          => /\ ret.exc = "none"
             /\ ret.val.kind = "str"
             /\ IF ~AnyBackend \/ args.deviceid.i < 0
                THEN ret.val = PyStr("cpu")
                ELSE ret.val \in {PyStr("cuda:" \o IntToStr(args.deviceid.i)),
                                  PyStr("mps"), PyStr("xpu")}
    /\ (op = "reference" /\ args.deviceid.kind = "int" /\ args.deviceid.i >= 0)
          => (ret = Returned(PyNone) <=> ~AnyBackend)

\* deviceid(11) then reference, with no backend available, gave "cpu".
C10_Witness ==
    /\ op = "reference"
    /\ args.via = "deviceid"
    /\ args.gpu = PyInt(11)
    /\ ~AnyBackend
    /\ args.deviceid = PyInt(-1)
    /\ ret = Returned(PyStr("cpu"))

====
